---- MODULE Spec2Model ----
(***************************************************************************)
(* A model of the mess-cut (meal-skip) flow of the MESSY application:      *)
(* MessCutService and NotificationService of                               *)
(* src/project/services/NotificationService.ts, running against the        *)
(* deliveries / notifications tables of the supabase migrations.           *)
(*                                                                         *)
(* Instants are milliseconds since 2025-01-01T00:00 in the ambient local   *)
(* zone (luxon's DateTime has millisecond precision; the zone is taken to  *)
(* have no offset change in the modelled days).  An optional value is a    *)
(* tuple: <<>> is null, <<v>> holds v.                                     *)
(***************************************************************************)
EXTENDS Integers, Sequences, FiniteSets, Bags, TLC

VARIABLES
    now,            \* the clock: what DateTime.now() returns
    deliveries,     \* table deliveries: id -> row
    notifications,  \* table notifications: the set of its rows
    pushes,         \* the bag of alerts handed to scheduleNotificationAsync
    calls,          \* the requestMessCut invocations: id -> frame
    ack,            \* the acknowledgeMessCut invocation
    check,          \* the canRequestMessCut invocation
    ns,             \* the NotificationService invocation made on its own
    perm,           \* the isValidScreen / hasPermission invocation
    theme,          \* ThemeProvider: its state, the stored preference, its calls
    nav,            \* useRoleBasedNavigation: its inputs, its refs, the router
    auth,           \* AuthProvider: its state, the auth service, its calls
    admin           \* the messes table and the admin screens' views of it

\* the variables of the services, and those of the screens and contexts
serviceVars == <<now, deliveries, notifications, pushes, calls, ack, check, ns>>

uiVars == <<perm, theme, nav, auth, admin>>

vars == <<now, deliveries, notifications, pushes, calls, ack, check, ns,
          perm, theme, nav, auth, admin>>

-----------------------------------------------------------------------------
(* Bounds of the model *)

MaxCalls == 2

CallIds == 1..MaxCalls

\* the rows sendNotification, called on its own, may insert, and the alerts
\* it may dispatch
MaxNotifications == 2

\* setItem calls of toggleTheme that AsyncStorage has not yet answered
MaxPendingWrites == 2

\* calls of fetchUserProfile suspended at the same time
MaxFetches == 2

-----------------------------------------------------------------------------
(* Optional values, JavaScript undefined and NaN *)

Null == <<>>

Some(v) == <<v>>

\* JavaScript undefined: unlike null, and unlike any value held
Undefined == <<"undefined", "undefined">>

NaN == <<>>

-----------------------------------------------------------------------------
(* Time: DateTime.fromISO(`${date}T${HH:mm}`), DateTime.now(), diff *)

MsPerMinute == 60 * 1000

MsPerHour == 60 * MsPerMinute

MsPerDay == 24 * MsPerHour

IsLeapYear(y) == (y % 4 = 0 /\ y % 100 # 0) \/ y % 400 = 0

DaysInMonth(y, m) ==
    IF m = 2 THEN (IF IsLeapYear(y) THEN 29 ELSE 28)
    ELSE IF m \in {4, 6, 9, 11} THEN 30 ELSE 31

\* a date string "YYYY-MM-DD" is the tuple <<YYYY, MM, DD>>
IsValidDate(date) ==
    /\ date[2] \in 1..12
    /\ date[3] \in 1..DaysInMonth(date[1], date[2])

RECURSIVE DaysBeforeMonth(_, _)
DaysBeforeMonth(y, m) ==
    IF m = 1 THEN 0 ELSE DaysBeforeMonth(y, m - 1) + DaysInMonth(y, m - 1)

\* days from the first day of the year to the date (the model's dates share a year)
DayNumber(date) == DaysBeforeMonth(date[1], date[2]) + date[3] - 1

\* a time of day "HH:mm" is the tuple <<HH, mm>>
\* variant: the times of lunch and dinner exchanged
getMealTimeSwapped(mealType) ==
    CASE mealType = "breakfast" -> <<8, 0>>
      [] mealType = "lunch" -> <<20, 0>>
      [] mealType = "dinner" -> <<13, 0>>
      [] OTHER -> <<12, 0>>

getMealTime(mealType) ==
    CASE mealType = "breakfast" -> <<8, 0>>
      [] mealType = "lunch" -> <<13, 0>>
      [] mealType = "dinner" -> <<20, 0>>
      [] OTHER -> <<12, 0>>

\* DateTime.fromISO: an instant, or an invalid DateTime (NaN)
FromISO(date, time) ==
    IF IsValidDate(date)
    THEN Some(DayNumber(date) * MsPerDay + time[1] * MsPerHour + time[2] * MsPerMinute)
    ELSE NaN

\* deliveryDateTime.diff(now, 'hours').hours, kept as the exact millisecond
\* difference: the double ms / 3600000 is below 12 exactly when
\* ms < 12 * 3600000 (division is monotone and 43200000 / 3600000 is exact).
\* An invalid DateTime gives NaN.
HoursDifference(deliveryDateTime, t) ==
    IF deliveryDateTime = NaN THEN NaN ELSE Some(deliveryDateTime[1] - t)

AdvanceNoticeHours == 12

\* variant: only a meal already past is below the bound
LessThanZero(hoursDifference) ==
    /\ hoursDifference # NaN
    /\ hoursDifference[1] < 0

\* hoursDifference < 12; every comparison with NaN is false
LessThanTwelve(hoursDifference) ==
    /\ hoursDifference # NaN
    /\ hoursDifference[1] < AdvanceNoticeHours * MsPerHour

\* variant: exactly 12 hours is not enough
AtLeastTwelveStrict(hoursDifference) ==
    /\ hoursDifference # NaN
    /\ hoursDifference[1] > AdvanceNoticeHours * MsPerHour

\* hoursDifference >= 12
AtLeastTwelve(hoursDifference) ==
    /\ hoursDifference # NaN
    /\ hoursDifference[1] >= AdvanceNoticeHours * MsPerHour

canRequestMessCut(date, mealType, t) ==
    AtLeastTwelve(HoursDifference(FromISO(date, getMealTime(mealType)), t))

-----------------------------------------------------------------------------
(* Inputs *)

D1 == <<2025, 1, 10>>

D2 == <<2025, 1, 11>>

BadDate == <<2025, 2, 30>>

Dates == {D1, D2, BadDate}

MealTypes == {"breakfast", "lunch", "dinner", "snack"}

At(date, h, m, s, ms) == DayNumber(date) * MsPerDay + h * MsPerHour + m * MsPerMinute + s * 1000 + ms

\* the instants the clock takes while requests run
ClockPoints ==
    { At(D1, 1, 0, 0, 0),       \* 12h00m00s before lunch of D1
      At(D1, 1, 0, 1, 0) }      \* 11h59m59s before lunch of D1

\* the instants the eligibility check alone is tried at
EligibilityInstants ==
    ClockPoints \cup
    { At(D1, 0, 0, 0, 0),       \* 12h00m before the fallback time of D1
      At(D1, 0, 30, 0, 0),      \* 12h30m before lunch of D1
      At(D1, 1, 0, 0, 1),       \* 11h59m59.999s before lunch of D1
      At(D1, 8, 0, 0, 0),       \* 12h00m before dinner of D1, breakfast of D1 is now
      At(D1, 9, 1, 0, 0),       \* 10h59m before dinner of D1
      At(D1, 14, 0, 0, 0),      \* lunch of D1 is one hour past
      At(D2, 20, 0, 0, 1) }     \* every meal of D1 and D2 is past

Tick ==
    /\ \E t \in ClockPoints : t > now /\ now' = t
    /\ UNCHANGED <<deliveries, notifications, pushes, calls, ack, check, ns, uiVars>>

-----------------------------------------------------------------------------
(* The database: messes, subscriptions (read-only here) and deliveries *)

\* messes rows; the customer reads a mess only while it is approved
\* (policy "Anyone can read approved messes")
Messes ==
    [ m \in {"mess1", "mess2"} |->
        IF m = "mess1"
        THEN [owner_id |-> "owner1", name |-> "Mess A", status |-> "approved"]
        ELSE [owner_id |-> "owner2", name |-> "Mess B", status |-> "suspended"] ]

Subscriptions ==
    [ s \in {"sub1", "sub2"} |->
        [mess_id |-> IF s = "sub1" THEN "mess1" ELSE "mess2"] ]

DeliveryIds == {"dl1", "dl2", "dl3"}

NewDelivery(sub, date, meal) ==
    [ subscription_id |-> sub,
      mess_id |-> Subscriptions[sub].mess_id,
      date |-> date,
      meal_type |-> meal,
      status |-> "scheduled",
      skip_reason |-> Null,
      skip_requested_at |-> Null,
      delivery_notes |-> Null ]

InitDeliveries ==
    [ id \in DeliveryIds |->
        CASE id = "dl1" -> NewDelivery("sub1", D1, "lunch")
          [] id = "dl2" -> NewDelivery("sub1", D2, "lunch")
          [] OTHER -> NewDelivery("sub2", D2, "dinner") ]

\* the values of the enum meal_type
MealTypeEnum == {"breakfast", "lunch", "dinner"}

\* UPDATE ... SET: the columns the body names are set, the others are kept
ApplyPatch(row, body) ==
    [ k \in DOMAIN row |-> IF k \in DOMAIN body THEN body[k] ELSE row[k] ]

\* the embedded resource messes(owner_id, name) of a subscription
EmbedMess(mess_id) ==
    IF Messes[mess_id].status = "approved"
    THEN Some([owner_id |-> Messes[mess_id].owner_id, name |-> Messes[mess_id].name])
    ELSE Null

\* select('*, subscriptions(mess_id, messes(owner_id, name))') on one row
SelectJoined(id, row) ==
    [ id |-> id,
      row |-> row,
      subscriptions |->
          Some([ mess_id |-> Subscriptions[row.subscription_id].mess_id,
                 messes |-> EmbedMess(Subscriptions[row.subscription_id].mess_id) ]) ]

\* the rows .eq('subscription_id', s).eq('date', d).eq('meal_type', m) keeps
MatchingDeliveries(rows, sub, date, meal) ==
    { id \in DOMAIN rows :
        /\ rows[id].subscription_id = sub
        /\ rows[id].date = date
        /\ rows[id].meal_type = meal }

-----------------------------------------------------------------------------
(* MessCutService.requestMessCut *)

\* the arguments requestMessCut is called with: subscriptionId, date, mealType
\* and the optional reason
RequestInputs ==
    { <<"sub1", D1, "lunch", Undefined>>,       \* the row dl1
      <<"sub1", D2, "lunch", Undefined>>,       \* the row dl2
      <<"sub1", D2, "lunch", Some("sick")>>,
      <<"sub2", D2, "dinner", Some("sick")>>,   \* the row dl3, whose mess the customer cannot read
      <<"sub1", D1, "dinner", Undefined>>,      \* no row
      <<"sub1", BadDate, "lunch", Undefined>>,  \* no date
      <<"sub1", D2, "snack", Undefined>> }      \* no meal slot

IdleCall ==
    [ pc |-> "idle", subscriptionId |-> "", date |-> Null, mealType |-> "",
      mealTime |-> Null, reason |-> Undefined, now |-> Null, delivery |-> Null,
      error |-> Null, logged |-> <<>>, insert |-> "none", push |-> "none",
      attempts |-> [update |-> 0, insert |-> 0, push |-> 0] ]

\* the catch block of requestMessCut: log and rethrow
Throw(frame, err) ==
    [frame EXCEPT !.pc = "failed", !.error = Some(err),
                  !.logged = Append(@, "Error requesting mess cut:")]

\* lines 111-118: the advance-notice guard; true when the request is refused
\* variant: the guard left out
GuardRefusesNever(date, mealType, t) == FALSE

GuardRefuses(date, mealType, t) ==
    LessThanTwelve(HoursDifference(FromISO(date, getMealTime(mealType)), t))

\* the call up to its first await: the guard, then the update is sent
RequestMessCut(c, sub, date, meal, reason) ==
    /\ calls[c].pc = "idle"
    /\ \A b \in CallIds : b < c => calls[b].pc # "idle"
    /\ LET frame == [calls[c] EXCEPT !.subscriptionId = sub, !.date = date,
                                     !.mealType = meal, !.reason = reason,
                                     !.mealTime = getMealTime(meal),
                                     !.now = Some(now)]
       IN  calls' = [calls EXCEPT ![c] =
                IF GuardRefuses(date, meal, now)
                THEN Throw(frame, "Mess cut requests must be made at least 12 hours in advance")
                ELSE [frame EXCEPT !.pc = "updating"]]
    /\ UNCHANGED <<now, deliveries, notifications, pushes, ack, check, ns, uiVars>>

\* lines 123-127: the body of the update as it is sent. JSON.stringify leaves
\* out a key whose value is undefined, so a request without a reason names
\* no skip_reason.
\* variant: the body without the status
SkipPatchKeepsStatus(reason, t) ==
    IF reason = Undefined
    THEN [skip_requested_at |-> Some(t)]
    ELSE [skip_reason |-> reason, skip_requested_at |-> Some(t)]

\* variant: the stamp is a second later than the instant of the check
SkipPatchStampsLater(reason, t) ==
    IF reason = Undefined
    THEN [status |-> "skipped", skip_requested_at |-> Some(t + 1000)]
    ELSE [status |-> "skipped", skip_reason |-> reason, skip_requested_at |-> Some(t + 1000)]

SkipPatch(reason, t) ==
    IF reason = Undefined
    THEN [status |-> "skipped", skip_requested_at |-> Some(t)]
    ELSE [status |-> "skipped", skip_reason |-> reason, skip_requested_at |-> Some(t)]

\* .single(): the error of a response that does not hold exactly one row
\* variant: maybeSingle() in place of single(): no row is no error
SingleErrorNever(hit) == Null

SingleError(hit) == IF Cardinality(hit) = 1 THEN Null ELSE Some("PGRST116")

\* what the database answers to the update: an error, or none
UpdateError(f, hit) ==
    IF ~IsValidDate(f.date) THEN Some("22008")             \* the date literal is no date
    ELSE IF f.mealType \notin MealTypeEnum THEN Some("22P02")  \* no value of the enum
    ELSE SingleError(hit)

\* lines 134-138 on the response: throw deliveryError, or read the owner
\* through the join (no data, or a null embed, makes the property read throw
\* a TypeError)
AfterUpdate(frame, error, data) ==
    IF error # Null THEN Throw(frame, error[1])
    ELSE IF data = Null THEN Throw(frame, "TypeError")
    ELSE IF data[1].subscriptions = Null \/ data[1].subscriptions[1].messes = Null
    THEN Throw([frame EXCEPT !.delivery = data], "TypeError")
    ELSE [frame EXCEPT !.pc = "inserting", !.delivery = data]

\* the update request reaches the database and its response the caller
UpdateDelivery(c) ==
    /\ calls[c].pc = "updating"
    /\ LET f == [calls[c] EXCEPT !.attempts.update = @ + 1]
           hit == MatchingDeliveries(deliveries, f.subscriptionId, f.date, f.mealType)
           err == UpdateError(f, hit)
       IN  \/ \* the request does not reach the database
              /\ calls' = [calls EXCEPT ![c] = AfterUpdate(f, Some("FetchError"), Null)]
              /\ UNCHANGED deliveries
           \/ \* the database refuses the request, or no row is returned
              /\ err # Null \/ hit = {}
              /\ calls' = [calls EXCEPT ![c] = AfterUpdate(f, err, Null)]
              /\ UNCHANGED deliveries
           \/ \* the row is updated and returned with its join
              /\ err = Null
              /\ \E id \in hit :
                    LET row == ApplyPatch(deliveries[id], SkipPatch(f.reason, f.now[1]))
                    IN  /\ deliveries' = [deliveries EXCEPT ![id] = row]
                        /\ calls' = [calls EXCEPT ![c] =
                                        AfterUpdate(f, Null, Some(SelectJoined(id, row)))]
    /\ UNCHANGED <<now, notifications, pushes, ack, check, ns, uiVars>>

-----------------------------------------------------------------------------
(* NotificationService.sendNotification, as requestMessCut awaits it *)

\* line 59: data?.type || 'system'
\* variant: the type of the payload not read
NotificationTypeAlwaysSystem(data) == "system"

NotificationType(data) ==
    IF data = Undefined THEN "system"
    ELSE IF "type" \notin DOMAIN data[1] THEN "system"
    ELSE IF data[1].type = "" THEN "system"
    ELSE data[1].type

\* lines 55-62: the row handed to insert, with the id the table gives it
\* (gen_random_uuid(): one id per insert, here named after the inserter)
NotificationRow(id, userId, title, message, data) ==
    [ id |-> id,
      user_id |-> userId,
      title |-> title,
      message |-> message,
      type |-> NotificationType(data),
      data |-> data,
      is_read |-> FALSE ]

\* lines 137-151: the arguments requestMessCut passes to sendNotification;
\* the message template is kept as the values it interpolates
OwnerOf(joined) == joined.subscriptions[1].messes[1].owner_id

NotifyArgs(frame) ==
    LET joined == frame.delivery[1]
    IN  [ userId |-> OwnerOf(joined),
          title |-> "Mess Cut Request",
          message |-> <<frame.mealType, frame.date, joined.subscriptions[1].messes[1].name>>,
          data |-> Some([ type |-> "mess_cut",
                          deliveryId |-> joined.id,
                          date |-> frame.date,
                          mealType |-> frame.mealType,
                          reason |-> frame.reason ]) ]

\* lines 55-62: the insert reaches the database, or fails; the client returns
\* the failure as a value, which sendNotification does not read
InsertNotification(c) ==
    /\ calls[c].pc = "inserting"
    /\ LET a == NotifyArgs(calls[c])
       IN  \/ /\ notifications' = notifications \cup
                    {NotificationRow(<<"requestMessCut", c>>, a.userId, a.title, a.message, a.data)}
              /\ calls' = [calls EXCEPT ![c].pc = "pushing", ![c].insert = "ok",
                                        ![c].attempts.insert = @ + 1]
           \/ /\ UNCHANGED notifications
              /\ calls' = [calls EXCEPT ![c].pc = "pushing", ![c].insert = "failed",
                                        ![c].attempts.insert = @ + 1]
    /\ UNCHANGED <<now, deliveries, pushes, ack, check, ns, uiVars>>

\* without the try/catch of lines 53 and 73 the error reaches requestMessCut
PushThrewUncaught(frame) == Throw([frame EXCEPT !.push = "failed"], "PushError")

\* variant: a dispatch that threw is tried once more
PushThrewRetries(frame) ==
    [frame EXCEPT !.pc = IF frame.attempts.push < 2 THEN "pushing" ELSE "done",
                  !.push = "failed",
                  !.logged = Append(@, "Error sending notification:")]

\* lines 73-75, then 153: the catch block logs, sendNotification returns and
\* requestMessCut returns the delivery
PushThrew(frame) ==
    [frame EXCEPT !.pc = "done", !.push = "failed",
                  !.logged = Append(@, "Error sending notification:")]

\* variant: the alert dispatched before the insert is awaited
SchedulePushBeforeInsert(c) ==
    /\ calls[c].pc = "inserting"
    /\ calls[c].push = "none"
    /\ LET a == NotifyArgs(calls[c])
       IN  /\ pushes' = pushes (+) SetToBag({[title |-> a.title, body |-> a.message, data |-> a.data]})
           /\ calls' = [calls EXCEPT ![c].push = "ok", ![c].attempts.push = @ + 1]
    /\ UNCHANGED <<now, deliveries, notifications, ack, check, ns, uiVars>>

\* lines 65-72, then 153: the alert is dispatched, or the dispatch throws
SchedulePush(c) ==
    /\ calls[c].pc = "pushing"
    /\ LET a == NotifyArgs(calls[c])
           f == [calls[c] EXCEPT !.attempts.push = @ + 1]
       IN  \/ /\ pushes' = pushes (+) SetToBag({[title |-> a.title, body |-> a.message, data |-> a.data]})
              /\ calls' = [calls EXCEPT ![c] = [f EXCEPT !.pc = "done", !.push = "ok"]]
           \/ /\ UNCHANGED pushes
              /\ calls' = [calls EXCEPT ![c] = PushThrew(f)]
    /\ UNCHANGED <<now, deliveries, notifications, ack, check, ns, uiVars>>

-----------------------------------------------------------------------------
(* MessCutService.acknowledgeMessCut *)

\* a well-formed id that no row has
UnknownDeliveryId == "dl9"

AckIds == {"dl1", UnknownDeliveryId}

IdleAck == [pc |-> "idle", deliveryId |-> "", error |-> Null, logged |-> <<>>]

\* variant: the acknowledgement also marks the delivery as delivered
AcknowledgePatchDelivers ==
    [delivery_notes |-> Some("Acknowledged by mess owner"), status |-> "delivered"]

AcknowledgePatch == [delivery_notes |-> Some("Acknowledged by mess owner")]

\* variant: delete() in place of update(): the row is removed
AcknowledgeMessCutDeletes(id) ==
    /\ ack.pc = "idle"
    /\ deliveries' = [d \in DOMAIN deliveries \ {id} |-> deliveries[d]]
    /\ ack' = [ack EXCEPT !.pc = "done", !.deliveryId = id]
    /\ UNCHANGED <<now, notifications, pushes, calls, check, ns, uiVars>>

\* lines 160-174: one update filtered by id; an update that matches no row is
\* no error to the client
AcknowledgeMessCut(id) ==
    /\ ack.pc = "idle"
    /\ \/ /\ deliveries' =
                [ d \in DOMAIN deliveries |->
                    IF d = id THEN ApplyPatch(deliveries[d], AcknowledgePatch)
                    ELSE deliveries[d] ]
          /\ ack' = [ack EXCEPT !.pc = "done", !.deliveryId = id]
       \/ \* the request does not reach the database
          /\ UNCHANGED deliveries
          /\ ack' = [ack EXCEPT !.pc = "failed", !.deliveryId = id,
                                !.error = Some("FetchError"),
                                !.logged = Append(@, "Error acknowledging mess cut:")]
    /\ UNCHANGED <<now, notifications, pushes, calls, check, ns, uiVars>>

-----------------------------------------------------------------------------
(* MessCutService.canRequestMessCut, called on its own *)

IdleCheck ==
    [ pc |-> "idle", date |-> Null, mealType |-> "", mealTime |-> Null,
      now |-> Null, result |-> FALSE ]

CanRequestMessCut(date, meal) ==
    /\ check' = [pc |-> "done", date |-> date, mealType |-> meal,
                 mealTime |-> getMealTime(meal), now |-> Some(now),
                 result |-> canRequestMessCut(date, meal, now)]
    /\ UNCHANGED <<now, deliveries, notifications, pushes, calls, ack, ns, uiVars>>

-----------------------------------------------------------------------------
(* NotificationService.sendNotification, markAsRead and getUnreadCount,     *)
(* called on their own                                                      *)

Users == {"owner1", "owner2"}

\* the values of the enum notification_type
NotificationTypeEnum == {"mess_cut", "delivery", "subscription", "system", "rating"}

\* the arguments sendNotification is called with: userId and the optional data
SendInputs ==
    { <<"owner1", Undefined>>,                                        \* no payload
      <<"owner1", Some([type |-> "delivery", deliveryId |-> "dl1"])>>,
      <<"owner2", Some([deliveryId |-> "dl1"])>>,                     \* a payload without a type
      <<"owner2", Some([type |-> ""])>>,                              \* a type that is falsy
      <<"owner1", Some([type |-> "promo"])>> }                        \* a type the enum does not have

\* gen_random_uuid(): the n-th row inserted gets the n-th id
NotificationId(n) == <<"sendNotification", n>>

\* a well-formed id that no row has
UnknownNotificationId == NotificationId(0)

NotificationIds == {NotificationId(n) : n \in 1..MaxNotifications} \cup {UnknownNotificationId}

IdleService ==
    [ op |-> "none", pc |-> "idle", userId |-> "", data |-> Undefined,
      notificationId |-> Null, insert |-> "none", push |-> "none",
      update |-> "none", query |-> "none", result |-> Null, error |-> Null,
      logged |-> <<>> ]

\* what the database answers to the insert of a row: an error, or none
InsertError(row) ==
    IF row.type \notin NotificationTypeEnum THEN Some("22P02") ELSE Null

\* lines 52-76: the insert, whose failure the client returns as a value that
\* is not read, then the dispatch, whose failure is thrown, caught and logged
SendNotification(userId, data) ==
    /\ Cardinality(notifications) < MaxNotifications
    /\ BagCardinality(pushes) < MaxNotifications
    /\ LET id == NotificationId(Cardinality(notifications) + 1)
           row == NotificationRow(id, userId, "Hello", <<"Hello">>, data)
           frame == [IdleService EXCEPT !.op = "sendNotification", !.pc = "done",
                                        !.userId = userId, !.data = data]
       IN  \E stored \in (IF InsertError(row) = Null THEN BOOLEAN ELSE {FALSE}),
              pushed \in BOOLEAN :
               /\ notifications' = IF stored THEN notifications \cup {row} ELSE notifications
               /\ pushes' = IF pushed
                            THEN pushes (+) SetToBag({[title |-> "Hello", body |-> <<"Hello">>, data |-> data]})
                            ELSE pushes
               /\ ns' = [frame EXCEPT
                            !.insert = IF stored THEN "ok" ELSE "failed",
                            !.notificationId = IF stored THEN Some(id) ELSE Null,
                            !.push = IF pushed THEN "ok" ELSE "failed",
                            !.logged = IF pushed THEN <<>> ELSE <<"Error sending notification:">>]
    /\ UNCHANGED <<now, deliveries, calls, ack, check, uiVars>>

\* lines 80-83: update({is_read: true}).eq('id', notificationId)
\* variant: the filter on the id left out
MarkReadAll(rows, notificationId) == { [r EXCEPT !.is_read = TRUE] : r \in rows }

MarkRead(rows, notificationId) ==
    { IF r.id = notificationId THEN [r EXCEPT !.is_read = TRUE] ELSE r : r \in rows }

\* lines 78-87: the update is applied, or the store fails; the failure is
\* returned as a value that is not read
MarkAsRead(notificationId) ==
    /\ LET frame == [IdleService EXCEPT !.op = "markAsRead", !.pc = "done",
                                        !.notificationId = Some(notificationId)]
       IN  \/ /\ notifications' = MarkRead(notifications, notificationId)
              /\ ns' = [frame EXCEPT !.update = "ok"]
           \/ /\ UNCHANGED notifications
              /\ ns' = [frame EXCEPT !.update = "failed"]
    /\ UNCHANGED <<now, deliveries, pushes, calls, ack, check, uiVars>>

\* lines 91-95: select('*', {count: 'exact', head: true}).eq('user_id', userId)
\* .eq('is_read', false)
\* variant: the filter on the recipient left out
UnreadCountQueryAnyUser(rows, userId) ==
    Cardinality({r \in rows : r.is_read = FALSE})

UnreadCountQuery(rows, userId) ==
    Cardinality({r \in rows : r.user_id = userId /\ r.is_read = FALSE})

\* line 97: count || 0, for a count that is a number or null
OrZero(count) == IF count = Null THEN 0 ELSE count[1]

\* lines 89-102: the count of the query, or 0 when the query failed (count is
\* null then)
GetUnreadCount(userId) ==
    /\ LET frame == [IdleService EXCEPT !.op = "getUnreadCount", !.pc = "done",
                                        !.userId = userId]
       IN  \/ ns' = [frame EXCEPT !.query = "ok",
                        !.result = Some(OrZero(Some(UnreadCountQuery(notifications, userId))))]
           \/ ns' = [frame EXCEPT !.query = "failed", !.result = Some(OrZero(Null))]
    /\ UNCHANGED <<now, deliveries, notifications, pushes, calls, ack, check, uiVars>>

-----------------------------------------------------------------------------
(* useRoleBasedNavigation: ROLE_PERMISSIONS, isValidScreen, hasPermission   *)

\* lines 6-22; the arrays are kept as the sets of their elements
ROLE_PERMISSIONS ==
    [ customer |->
        [ screens |-> {"home", "discover", "subscriptions", "notifications", "profile"},
          features |-> {"browse_messes", "manage_subscriptions", "view_notifications",
                        "edit_profile"},
          defaultScreen |-> "home" ],
      mess_owner |->
        [ screens |-> {"dashboard", "menu", "subscribers", "notifications", "profile"},
          features |-> {"manage_mess", "manage_menu", "view_subscribers",
                        "view_notifications", "edit_profile"},
          defaultScreen |-> "dashboard" ],
      admin |->
        [ screens |-> {"overview", "messes", "notifications", "settings"},
          features |-> {"system_management", "approve_messes", "view_all_data",
                        "manage_settings", "view_notifications"},
          defaultScreen |-> "overview" ] ]

\* the roles a user row is tried with: the three of the table, one the table
\* does not have, and the empty string
RoleValues == {"customer", "mess_owner", "admin", "superuser", ""}

\* the user of the auth context: null, or a row of which the role matters
UserValues == {Null} \cup {Some([role |-> r]) : r \in RoleValues}

\* the last segments of the paths tried: every screen of the table, a page
\* that is no tab screen, and none
ScreenNames ==
    UNION {ROLE_PERMISSIONS[r].screens : r \in DOMAIN ROLE_PERMISSIONS}
        \cup {"mess-details", ""}

FeatureNames == UNION {ROLE_PERMISSIONS[r].features : r \in DOMAIN ROLE_PERMISSIONS}

\* variant: a role the table does not have is given the permissions of admin
PermissionsOfFallbackAdmin(role) ==
    IF role \in DOMAIN ROLE_PERMISSIONS
    THEN ROLE_PERMISSIONS[role]
    ELSE ROLE_PERMISSIONS["admin"]

\* lines 45, 68, 75: ROLE_PERMISSIONS[userRole] || ROLE_PERMISSIONS.customer
PermissionsOf(role) ==
    IF role \in DOMAIN ROLE_PERMISSIONS
    THEN ROLE_PERMISSIONS[role]
    ELSE ROLE_PERMISSIONS["customer"]

\* lines 64-70
isValidScreen(user, screenName) ==
    IF user = Null THEN FALSE
    ELSE screenName \in PermissionsOf(user[1].role).screens

\* lines 71-77
hasPermission(user, feature) ==
    IF user = Null THEN FALSE
    ELSE feature \in PermissionsOf(user[1].role).features

IdlePerm == [op |-> "none", user |-> Null, arg |-> "", result |-> FALSE]

IsValidScreen(user, screenName) ==
    /\ perm' = [op |-> "isValidScreen", user |-> user, arg |-> screenName,
                result |-> isValidScreen(user, screenName)]
    /\ UNCHANGED <<serviceVars, theme, nav, auth, admin>>

HasPermission(user, feature) ==
    /\ perm' = [op |-> "hasPermission", user |-> user, arg |-> feature,
                result |-> hasPermission(user, feature)]
    /\ UNCHANGED <<serviceVars, theme, nav, auth, admin>>

-----------------------------------------------------------------------------
(* ThemeProvider *)

\* what AsyncStorage can hold under the key 'theme': nothing, or one of the
\* two strings toggleTheme writes
StoredThemes == {Null, Some("light"), Some("dark")}

\* newTheme ? 'dark' : 'light'
ThemeName(dark) == IF dark THEN "dark" ELSE "light"

\* useState(false); the effect of the mount has not run; rendered is the
\* isDark of the last render, which the toggleTheme closure reads; writes
\* are the setItem calls AsyncStorage has not yet carried out, in order
ThemeAtMount ==
    [isDark |-> FALSE, rendered |-> FALSE, stored |-> Null,
     load |-> [pc |-> "idle", savedTheme |-> Null],
     writes |-> <<>>, toggled |-> FALSE, saveFailed |-> FALSE, logged |-> {}]

\* useEffect(() => { loadTheme() }, []) up to the await of getItem
LoadTheme ==
    /\ theme.load.pc = "idle"
    /\ theme' = [theme EXCEPT !.load.pc = "reading"]
    /\ UNCHANGED <<serviceVars, perm, nav, auth, admin>>

\* AsyncStorage answers getItem with the value stored at that moment, or
\* rejects, which the catch of loadTheme logs
GetItem ==
    /\ theme.load.pc = "reading"
    /\ \/ theme' = [theme EXCEPT !.load = [pc |-> "read", savedTheme |-> theme.stored]]
       \/ theme' = [theme EXCEPT !.load.pc = "done",
                                 !.logged = @ \cup {"Error loading theme:"}]
    /\ UNCHANGED <<serviceVars, perm, nav, auth, admin>>

\* loadTheme after its await: if (savedTheme) setIsDark(savedTheme === 'dark')
LoadThemeResume ==
    /\ theme.load.pc = "read"
    /\ theme' = [theme EXCEPT
            !.load.pc = "done",
            !.isDark = IF theme.load.savedTheme # Null
                       THEN theme.load.savedTheme = Some("dark") ELSE @]
    /\ UNCHANGED <<serviceVars, perm, nav, auth, admin>>

\* React renders the provider again after a state change
RenderTheme ==
    /\ theme.rendered # theme.isDark
    /\ theme' = [theme EXCEPT !.rendered = theme.isDark]
    /\ UNCHANGED <<serviceVars, perm, nav, auth, admin>>

\* toggleTheme up to the await of setItem
ToggleTheme ==
    /\ Len(theme.writes) < MaxPendingWrites
    /\ LET newTheme == ~theme.rendered
       IN theme' = [theme EXCEPT !.isDark = newTheme,
                                 !.writes = Append(@, ThemeName(newTheme))]
    /\ UNCHANGED <<serviceVars, perm, nav, auth, admin>>

\* AsyncStorage carries out the oldest setItem, or rejects it, which the
\* catch of toggleTheme logs; either way that toggleTheme call completes
SetItem ==
    /\ theme.writes # <<>>
    /\ \/ theme' = [theme EXCEPT !.stored = Some(Head(theme.writes)),
                                 !.writes = Tail(@), !.toggled = TRUE,
                                 !.saveFailed = FALSE]
       \/ theme' = [theme EXCEPT !.writes = Tail(@), !.toggled = TRUE,
                                 !.saveFailed = TRUE,
                                 !.logged = @ \cup {"Error saving theme:"}]
    /\ UNCHANGED <<serviceVars, perm, nav, auth, admin>>

\* the application is closed and opened again: the provider mounts anew,
\* AsyncStorage keeps what it holds
RestartApp ==
    /\ theme.load.pc = "done"
    /\ theme.writes = <<>>
    /\ theme' = [ThemeAtMount EXCEPT !.stored = theme.stored]
    /\ UNCHANGED <<serviceVars, perm, nav, auth, admin>>

-----------------------------------------------------------------------------
(* useRoleBasedNavigation: the effect *)

\* a pathname is the sequence of its segments: what pathname.split('/')
\* gives after the empty string before the leading slash.  '/' is <<"">>.
TabPath(screen) == <<"(tabs)", screen>>

\* the paths the router is sent to: the root, the tab group with no screen,
\* a page outside the tab group, and every name of ScreenNames as a tab
Pathnames ==
    {<<"">>, <<"mess-details">>} \cup {TabPath(sc) : sc \in ScreenNames}

\* pathname.split('/').pop()?.split('?')[0]
currentScreen(pathname) == pathname[Len(pathname)]

\* variant: every path counts as a tab path
includesTabsAlways(pathname) == TRUE

\* pathname.includes('/(tabs)/'): a segment (tabs) with a slash after it
includesTabs(pathname) ==
    \E i \in 1..(Len(pathname) - 1) : pathname[i] = "(tabs)"

\* variant: the flag is reset on every run of the effect that has a user
ResetsLatchAlways(user, lastUserRole) == user # Null

\* line 38: user && lastUserRole.current !== user.role
ResetsLatch(user, lastUserRole) ==
    user # Null /\ lastUserRole # Some(user[1].role)

\* the hook as first rendered: useAuth gives no user and no session, the
\* router is at the root, both refs hold their initial value, and the effect
\* of the mount is still to run; replaced is what the last run of the effect
\* handed to router.replace, if anything
NavAtMount ==
    [user |-> Null, session |-> FALSE, pathname |-> <<"">>,
     hasRedirected |-> FALSE, lastUserRole |-> Null,
     pending |-> TRUE, replaced |-> Null]

\* the effect of lines 36-61, run once its dependencies have changed;
\* router.replace puts the router at the new path, which is a change of
\* pathname and so schedules the effect again
RunEffect ==
    /\ nav.pending
    /\ LET reset == ResetsLatch(nav.user, nav.lastUserRole)
           hasRedirected == IF reset THEN FALSE ELSE nav.hasRedirected
           lastUserRole == IF reset THEN Some(nav.user[1].role) ELSE nav.lastUserRole
           afterReset == [nav EXCEPT !.hasRedirected = hasRedirected,
                                     !.lastUserRole = lastUserRole,
                                     !.pending = FALSE, !.replaced = Null]
       IN IF nav.user # Null /\ nav.session /\ ~hasRedirected
          THEN LET permissions == PermissionsOf(nav.user[1].role)
                   screen == currentScreen(nav.pathname)
               IN IF includesTabs(nav.pathname) /\ screen # ""
                     /\ screen \notin permissions.screens
                  THEN nav' = [afterReset EXCEPT
                          !.hasRedirected = TRUE,
                          !.replaced = Some(permissions.defaultScreen),
                          !.pathname = TabPath(permissions.defaultScreen),
                          !.pending = TRUE]
                  ELSE nav' = afterReset
          ELSE nav' = afterReset
    /\ UNCHANGED <<serviceVars, perm, theme, auth, admin>>

\* the user follows a link or presses a tab: the router is at another path
Navigate(pathname) ==
    /\ pathname # nav.pathname
    /\ nav' = [nav EXCEPT !.pathname = pathname, !.pending = TRUE, !.replaced = Null]
    /\ UNCHANGED <<serviceVars, perm, theme, auth, admin>>

\* the auth context hands the hook another user or session
AuthChanges(user, session) ==
    /\ <<user, session>> # <<nav.user, nav.session>>
    /\ nav' = [nav EXCEPT !.user = user, !.session = session,
                          !.pending = TRUE, !.replaced = Null]
    /\ UNCHANGED <<serviceVars, perm, theme, auth, admin>>

-----------------------------------------------------------------------------
(* AuthProvider *)

\* obj.field and obj?.field of JavaScript: undefined when the object has no
\* such property
Get(obj, field) == IF field \in DOMAIN obj THEN obj[field] ELSE Undefined

\* the one account of the model, its session as the client holds it, and the
\* row of table users it may have
UserId == "u1"

SessionOf(userId) == Some([user |-> [id |-> userId]])

ProfileRow == [id |-> UserId, role |-> "mess_owner"]

\* lines 68-79: the default profile, of which id and role matter
DefaultUser(userId) == [id |-> userId, role |-> "customer"]

\* the calls of fetchUserProfile that can be suspended at once
FetchIds == 1..MaxFetches

IdleFetch == [pc |-> "idle", userId |-> ""]

\* useState(null), useState(null), useState(true) of lines 21-23 before the
\* effect of the mount; client is the session the supabase client holds and
\* profile the row of table users of the account, console the last line
\* written to the console
AuthAtMount ==
    [session |-> Null, user |-> Null, loading |-> TRUE,
     boot |-> "unmounted",
     fetches |-> [f \in FetchIds |-> IdleFetch],
     signIn |-> "idle", signOut |-> "idle",
     console |-> "",
     client |-> Null, profile |-> Null]

\* variant: the finally block leaves loading as it is
FinallyKeepsLoading(a) == a

\* lines 100-102: finally { setLoading(false) }
Finally(a) == [a EXCEPT !.loading = FALSE]

FreeFetches(a) == {f \in FetchIds : a.fetches[f].pc = "idle"}

\* fetchUserProfile(userId) up to its first await (lines 52-58)
StartFetch(a, userId) ==
    LET f == CHOOSE g \in FreeFetches(a) : \A h \in FreeFetches(a) : g <= h
    IN [a EXCEPT !.fetches[f] = [pc |-> "select", userId |-> userId]]

\* the callback of lines 38-46 up to its await
OnAuthStateChange(a, session) ==
    IF session # Null
    THEN StartFetch([a EXCEPT !.session = session], session[1].user.id)
    ELSE [a EXCEPT !.session = Null, !.user = Null, !.loading = FALSE]

\* the effect of lines 25-50: getSession is called and the listener is
\* subscribed
MountAuth ==
    /\ auth.boot = "unmounted"
    /\ auth' = [auth EXCEPT !.boot = "getSession"]
    /\ UNCHANGED <<serviceVars, perm, theme, nav, admin>>

\* lines 27-34: the session lookup of the mount is answered
GetSessionAnswered ==
    /\ auth.boot = "getSession"
    /\ LET session == auth.client
           a == [auth EXCEPT !.boot = "done", !.session = session]
       IN IF session # Null
          THEN /\ FreeFetches(auth) # {}
               /\ auth' = StartFetch(a, session[1].user.id)
          ELSE auth' = [a EXCEPT !.loading = FALSE]
    /\ UNCHANGED <<serviceVars, perm, theme, nav, admin>>

\* the client reports its session to the listener: at subscription, when a
\* token is refreshed, when the application comes to the foreground
AuthStateChange ==
    /\ auth.boot # "unmounted"
    /\ auth.client # Null => FreeFetches(auth) # {}
    /\ auth' = OnAuthStateChange(auth, auth.client)
    /\ UNCHANGED <<serviceVars, perm, theme, nav, admin>>

\* lines 54-61 and 95-102: the select of the profile is answered with the
\* row, with the no-row error, with another error, or the request throws
ProfileSelectAnswered(f) ==
    /\ auth.fetches[f].pc = "select"
    /\ LET done == [auth EXCEPT !.fetches[f] = IdleFetch]
       IN \/ /\ auth.profile # Null
             /\ auth' = Finally([done EXCEPT !.user = auth.profile])
          \/ /\ auth.profile = Null
             /\ auth' = [auth EXCEPT
                    !.fetches[f].pc = "getSession",
                    !.console = "Creating default user profile for:"]
          \/ auth' = Finally([done EXCEPT
                    !.console = "Error fetching user profile: (returned)"])
          \/ auth' = Finally([done EXCEPT
                    !.console = "Error fetching user profile: (thrown)"])
    /\ UNCHANGED <<serviceVars, perm, theme, nav, admin>>

\* lines 66-67 and 93-102: supabase.auth.getSession() answers
\* { data: { session }, error }; `const { data: session }` names the data
\* object session, and session?.user is read from that object
ProfileGetSessionAnswered(f) ==
    /\ auth.fetches[f].pc = "getSession"
    /\ LET done == [auth EXCEPT !.fetches[f] = IdleFetch]
           response == [data |-> [session |-> auth.client], error |-> Null]
           session == response.data
       IN \/ IF Get(session, "user") \notin {Undefined, Null}
             THEN auth' = [auth EXCEPT !.fetches[f].pc = "insert"]
             ELSE auth' = Finally(done)
          \/ auth' = Finally([done EXCEPT
                    !.console = "Error fetching user profile: (thrown)"])
    /\ UNCHANGED <<serviceVars, perm, theme, nav, admin>>

\* lines 82-92 and 98-102: the insert of the default profile is answered;
\* the default profile becomes the user whether it was stored or not.  No
\* call reaches this point, since line 67 never holds.
ProfileInsertAnswered(f) ==
    /\ auth.fetches[f].pc = "insert"
    /\ LET done == [auth EXCEPT !.fetches[f] = IdleFetch,
                                !.user = Some(DefaultUser(auth.fetches[f].userId))]
       IN \/ auth' = Finally([done EXCEPT !.profile = done.user])
          \/ auth' = Finally([done EXCEPT
                    !.console = "Error creating user profile:"])
          \/ auth' = Finally([auth EXCEPT
                    !.fetches[f] = IdleFetch,
                    !.console = "Error fetching user profile: (thrown)"])
    /\ UNCHANGED <<serviceVars, perm, theme, nav, admin>>

\* signIn up to its await (lines 105-109), from the sign-in screen, which
\* the root layout shows when loading is over and session or user is null
SignIn ==
    /\ auth.boot # "unmounted"
    /\ ~auth.loading
    /\ auth.session = Null \/ auth.user = Null
    /\ auth.signIn = "idle"
    /\ auth' = [auth EXCEPT !.signIn = "awaiting"]
    /\ UNCHANGED <<serviceVars, perm, theme, nav, admin>>

\* signInWithPassword answers: the client holds the session and tells the
\* listener, or signIn throws the error (lines 110-131; the branch of lines
\* 111-129 needs the error of the client that is not configured)
SignInAnswered ==
    /\ auth.signIn = "awaiting"
    /\ \/ /\ FreeFetches(auth) # {}
          /\ auth' = OnAuthStateChange(
                        [auth EXCEPT !.signIn = "idle", !.client = SessionOf(UserId)],
                        SessionOf(UserId))
       \/ auth' = [auth EXCEPT !.signIn = "idle"]
    /\ UNCHANGED <<serviceVars, perm, theme, nav, admin>>

\* signOut up to its await (lines 181-182), from a screen behind the gate
\* of the root layout
SignOut ==
    /\ ~auth.loading
    /\ auth.session # Null
    /\ auth.user # Null
    /\ auth.signOut = "idle"
    /\ auth' = [auth EXCEPT !.signOut = "awaiting"]
    /\ UNCHANGED <<serviceVars, perm, theme, nav, admin>>

\* supabase.auth.signOut() answers: the client drops its session and tells
\* the listener before the call returns, or it answers with an error, which
\* signOut throws (lines 183-185)
SignOutAnswered ==
    /\ auth.signOut = "awaiting"
    /\ \/ auth' = OnAuthStateChange(
                        [auth EXCEPT !.signOut = "resume", !.client = Null], Null)
       \/ auth' = [auth EXCEPT !.signOut = "idle"]
    /\ UNCHANGED <<serviceVars, perm, theme, nav, admin>>

\* lines 186-187
SignOutResume ==
    /\ auth.signOut = "resume"
    /\ auth' = [auth EXCEPT !.signOut = "idle", !.user = Null, !.session = Null]
    /\ UNCHANGED <<serviceVars, perm, theme, nav, admin>>

-----------------------------------------------------------------------------
(* The admin screens on messes *)

\* the values of the enum mess_status
MessStatus == {"pending", "approved", "rejected", "suspended"}

\* two administrators, each with one screen open on the same mess
Admins == {"admin1", "admin2"}

\* the list of messes (messes.tsx) and the details page of one mess
AdminScreens == {"list", "details"}

\* the buttons a screen shows for the status it holds, as the status each
\* would write: Approve and Reject for pending and Suspend for approved on
\* both screens; Approve for rejected and suspended on the details page
Offered(screen, seen) ==
    IF seen = Some("pending") THEN {"approved", "rejected"}
    ELSE IF seen = Some("approved") THEN {"suspended"}
    ELSE IF screen = "details" /\ seen \in {Some("rejected"), Some("suspended")}
    THEN {"approved"}
    ELSE {}

\* no mess yet; no administrator has loaded a screen or pressed a button.
\* status is the column of the row of table messes, seen the status in the
\* data a screen holds, update the status of an update that is in flight.
AdminAtStart ==
    [status |-> Null,
     view |-> [a \in Admins |-> [screen |-> "list", seen |-> Null]],
     update |-> [a \in Admins |-> Null]]

\* dashboard.tsx handleCreateMess: the owner's insert, with status pending
HandleCreateMess ==
    /\ admin.status = Null
    /\ admin' = [admin EXCEPT !.status = Some("pending")]
    /\ UNCHANGED <<serviceVars, perm, theme, nav, auth>>

\* fetchMesses of the list and fetchMessDetails of the details page: the
\* screen holds the row as it is now
FetchMess(a, screen) ==
    /\ admin.update[a] = Null
    /\ admin' = [admin EXCEPT !.view[a] = [screen |-> screen, seen |-> admin.status]]
    /\ UNCHANGED <<serviceVars, perm, theme, nav, auth>>

\* handleStatusUpdate(mess.id, newStatus) and handleAdminAction(action) up
\* to the await of the update, from a button the screen shows
HandleStatusUpdate(a, newStatus) ==
    /\ admin.update[a] = Null
    /\ newStatus \in Offered(admin.view[a].screen, admin.view[a].seen)
    /\ admin' = [admin EXCEPT !.update[a] = Some(newStatus)]
    /\ UNCHANGED <<serviceVars, perm, theme, nav, auth>>

\* update({ status }).eq('id', messId) is answered: the row, whatever its
\* status, takes the new one and the screen reloads; or the update fails
\* and the screen shows the error
StatusUpdateAnswered(a) ==
    /\ admin.update[a] # Null
    /\ \/ admin' = [admin EXCEPT !.update[a] = Null,
                                 !.status = admin.update[a],
                                 !.view[a].seen = admin.update[a]]
       \/ admin' = [admin EXCEPT !.update[a] = Null]
    /\ UNCHANGED <<serviceVars, perm, theme, nav, auth>>

-----------------------------------------------------------------------------
(* The specifications *)

\* the screens and contexts before anything has run
UiAtRest ==
    /\ perm = IdlePerm
    /\ theme = ThemeAtMount
    /\ nav = NavAtMount
    /\ auth = AuthAtMount
    /\ admin = AdminAtStart

FirstInstant == CHOOSE t \in ClockPoints : \A u \in ClockPoints : t <= u

Init ==
    /\ now = FirstInstant
    /\ deliveries = InitDeliveries
    /\ notifications = {}
    /\ pushes = EmptyBag
    /\ calls = [c \in CallIds |-> IdleCall]
    /\ ack = IdleAck
    /\ check = IdleCheck
    /\ ns = IdleService
    /\ UiAtRest

Next ==
    \/ Tick
    \/ \E c \in CallIds, a \in RequestInputs :
            RequestMessCut(c, a[1], a[2], a[3], a[4])
    \/ \E c \in CallIds : UpdateDelivery(c)
    \/ \E c \in CallIds : InsertNotification(c)
    \/ \E c \in CallIds : SchedulePush(c)
    \/ \E id \in AckIds : AcknowledgeMessCut(id)

Spec == Init /\ [][Next]_vars

\* the eligibility check alone, at every instant of the clock
InitElig ==
    /\ now \in EligibilityInstants
    /\ deliveries = InitDeliveries
    /\ notifications = {}
    /\ pushes = EmptyBag
    /\ calls = [c \in CallIds |-> IdleCall]
    /\ ack = IdleAck
    /\ check = IdleCheck
    /\ ns = IdleService
    /\ UiAtRest

NextElig ==
    \/ \E date \in Dates, meal \in MealTypes : CanRequestMessCut(date, meal)

SpecElig == InitElig /\ [][NextElig]_vars

\* one request and the eligibility check of the screen that offers it, with
\* the clock advancing between them
FirstCall == CHOOSE c \in CallIds : \A b \in CallIds : c <= b

\* the requests tried: those of RequestInputs and one for a breakfast
GateInputs == RequestInputs \cup {<<"sub1", D2, "breakfast", Undefined>>}

NextGate ==
    \/ Tick
    \/ \E date \in Dates, meal \in MealTypes : CanRequestMessCut(date, meal)
    \/ \E a \in GateInputs : RequestMessCut(FirstCall, a[1], a[2], a[3], a[4])
    \/ UpdateDelivery(FirstCall)
    \/ InsertNotification(FirstCall)
    \/ SchedulePush(FirstCall)

SpecGate == Init /\ [][NextGate]_vars

\* every awaited request is answered: the store and the alert service
\* settle the promise the call is suspended on
SpecGateFair ==
    /\ SpecGate
    /\ WF_vars(UpdateDelivery(FirstCall))
    /\ WF_vars(InsertNotification(FirstCall))
    /\ WF_vars(SchedulePush(FirstCall))

\* acknowledgeMessCut alone, at every instant of the clock, on a table whose
\* row dl1 is scheduled or was skipped by an earlier request
SkippedEarlier ==
    [InitDeliveries EXCEPT !["dl1"] =
        ApplyPatch(@, SkipPatch(Some("sick"), At(D1, 0, 0, 0, 0)))]

InitAck ==
    /\ now \in EligibilityInstants
    /\ deliveries \in {InitDeliveries, SkippedEarlier}
    /\ notifications = {}
    /\ pushes = EmptyBag
    /\ calls = [c \in CallIds |-> IdleCall]
    /\ ack = IdleAck
    /\ check = IdleCheck
    /\ ns = IdleService
    /\ UiAtRest

NextAck ==
    \/ \E id \in DeliveryIds \cup {UnknownDeliveryId} : AcknowledgeMessCut(id)

SpecAck == InitAck /\ [][NextAck]_vars

\* isValidScreen and hasPermission for every user, screen and feature
NextRoles ==
    \/ \E user \in UserValues, screenName \in ScreenNames : IsValidScreen(user, screenName)
    \/ \E user \in UserValues, feature \in FeatureNames : HasPermission(user, feature)

SpecRoles == Init /\ [][NextRoles]_vars

\* the services at rest
ServicesAtRest ==
    /\ now = FirstInstant
    /\ deliveries = InitDeliveries
    /\ notifications = {}
    /\ pushes = EmptyBag
    /\ calls = [c \in CallIds |-> IdleCall]
    /\ ack = IdleAck
    /\ check = IdleCheck
    /\ ns = IdleService

\* the theme provider mounting over whatever an earlier run stored
InitTheme ==
    /\ ServicesAtRest
    /\ perm = IdlePerm
    /\ theme \in {[ThemeAtMount EXCEPT !.stored = v] : v \in StoredThemes}
    /\ nav = NavAtMount
    /\ auth = AuthAtMount
    /\ admin = AdminAtStart

NextTheme ==
    \/ LoadTheme
    \/ GetItem
    \/ LoadThemeResume
    \/ RenderTheme
    \/ ToggleTheme
    \/ SetItem
    \/ RestartApp

SpecTheme == InitTheme /\ [][NextTheme]_vars

\* the navigation hook under every change of user, session and path
NextNav ==
    \/ RunEffect
    \/ \E pathname \in Pathnames : Navigate(pathname)
    \/ \E user \in UserValues, session \in BOOLEAN : AuthChanges(user, session)

SpecNav == Init /\ [][NextNav]_vars

\* the auth provider mounting with or without a session kept by the client
\* and with or without a profile row for the account
InitAuth ==
    /\ ServicesAtRest
    /\ perm = IdlePerm
    /\ theme = ThemeAtMount
    /\ nav = NavAtMount
    /\ auth \in {[AuthAtMount EXCEPT !.client = c, !.profile = p] :
                    c \in {Null, SessionOf(UserId)}, p \in {Null, Some(ProfileRow)}}
    /\ admin = AdminAtStart

NextAuth ==
    \/ MountAuth
    \/ GetSessionAnswered
    \/ AuthStateChange
    \/ \E f \in FetchIds : ProfileSelectAnswered(f)
    \/ \E f \in FetchIds : ProfileGetSessionAnswered(f)
    \/ SignIn
    \/ SignInAnswered
    \/ SignOut
    \/ SignOutAnswered
    \/ SignOutResume

SpecAuth == InitAuth /\ [][NextAuth]_vars

\* the provider is mounted and every request it awaits is answered
SpecAuthFair ==
    /\ SpecAuth
    /\ WF_vars(MountAuth)
    /\ WF_vars(GetSessionAnswered)
    /\ \A f \in FetchIds : WF_vars(ProfileSelectAnswered(f))
    /\ \A f \in FetchIds : WF_vars(ProfileGetSessionAnswered(f))

\* one request and the eligibility check on a table whose row dl2 is
\* scheduled, was delivered, was cancelled, or was skipped by an earlier
\* request that gave a reason
EarlierStates ==
    { <<"scheduled", Null, Null>>,
      <<"delivered", Null, Null>>,
      <<"cancelled", Null, Null>>,
      <<"skipped", Some("away"), Some(At(D1, 0, 0, 0, 0))>> }

InitAnyStatus ==
    /\ now = FirstInstant
    /\ deliveries \in
          { [InitDeliveries EXCEPT !["dl2"] =
                [@ EXCEPT !.status = e[1], !.skip_reason = e[2],
                          !.skip_requested_at = e[3]]] : e \in EarlierStates }
    /\ notifications = {}
    /\ pushes = EmptyBag
    /\ calls = [c \in CallIds |-> IdleCall]
    /\ ack = IdleAck
    /\ check = IdleCheck
    /\ ns = IdleService
    /\ UiAtRest

SpecAnyStatus == InitAnyStatus /\ [][NextGate]_vars

\* an owner creating a mess and two administrators acting on it
NextAdmin ==
    \/ HandleCreateMess
    \/ \E a \in Admins, screen \in AdminScreens : FetchMess(a, screen)
    \/ \E a \in Admins, newStatus \in MessStatus : HandleStatusUpdate(a, newStatus)
    \/ \E a \in Admins : StatusUpdateAnswered(a)

SpecAdmin == Init /\ [][NextAdmin]_vars

\* the three operations of NotificationService called on their own
NextNotify ==
    \/ \E a \in SendInputs : SendNotification(a[1], a[2])
    \/ \E id \in NotificationIds : MarkAsRead(id)
    \/ \E userId \in Users : GetUnreadCount(userId)

SpecNotify == Init /\ [][NextNotify]_vars

-----------------------------------------------------------------------------
(* What the claims speak of *)

\* the cutoff hour of a meal slot, as the specification tabulates it
SlotCutoffHour(slot) ==
    CASE slot = "breakfast" -> 8
      [] slot = "lunch" -> 13
      [] slot = "dinner" -> 20
      [] OTHER -> 12

\* scheduledInstant - t in milliseconds, for a calendar date
LeadTime(date, slot, t) == DayNumber(date) * MsPerDay + SlotCutoffHour(slot) * MsPerHour - t

TwelveHoursMs == 12 * 60 * 60 * 1000

IneligibleMessage == "Mess cut requests must be made at least 12 hours in advance"

\* the row a call's filter names, if any
TargetOf(frame) ==
    MatchingDeliveries(deliveries, frame.subscriptionId, frame.date, frame.mealType)

-----------------------------------------------------------------------------
(* C1: for every calendar date, meal slot and instant, the eligibility      *)
(* check returns true exactly when scheduledInstant - now >= 12 hours:      *)
(* 12h0m0s ahead is eligible; 11h59m59s ahead and a past meal are not.      *)
C1_EligibleIffTwelveHoursAhead ==
    (check.pc = "done" /\ IsValidDate(check.date)) =>
        (check.result <=>
            LeadTime(check.date, check.mealType, check.now[1]) >= TwelveHoursMs)

\* the check has run exactly 12h0m0s before lunch and answered true
C1_Witness ==
    /\ check.pc = "done"
    /\ check.date = D1
    /\ check.mealType = "lunch"
    /\ check.now = Some(At(D1, 1, 0, 0, 0))
    /\ check.result = TRUE

-----------------------------------------------------------------------------
(* C2: a requestMessCut whose lead time is below 12 hours fails with the    *)
(* ineligible-window error and writes nothing, in the step that refuses it  *)
(* and ever after: no delivery row changes, no notification row is          *)
(* inserted, no alert is dispatched.                                        *)
C2_Refused(c) ==
    /\ calls[c].pc = "failed"
    /\ calls[c].error = Some(IneligibleMessage)

C2_IneligibleRequestWritesNothing ==
    [][\A c \in CallIds :
          /\ ( /\ calls[c].pc = "idle"
               /\ calls'[c].pc # "idle"
               /\ IsValidDate(calls'[c].date)
               /\ LeadTime(calls'[c].date, calls'[c].mealType, now) < TwelveHoursMs )
             => ( /\ calls'[c].pc = "failed"
                  /\ calls'[c].error = Some(IneligibleMessage)
                  /\ calls'[c].delivery = Null
                  /\ deliveries' = deliveries
                  /\ notifications' = notifications
                  /\ pushes' = pushes )
          /\ C2_Refused(c) => calls'[c] = calls[c]
      ]_vars

\* a request for lunch of D1 was refused 11h59m59s ahead; the row is scheduled
C2_Witness ==
    \E c \in CallIds :
        /\ C2_Refused(c)
        /\ calls[c].date = D1
        /\ calls[c].mealType = "lunch"
        /\ calls[c].subscriptionId = "sub1"
        /\ calls[c].now = Some(At(D1, 1, 0, 1, 0))
        /\ deliveries["dl1"].status = "scheduled"

-----------------------------------------------------------------------------
(* C3: an eligible request that matches exactly one delivery row leaves     *)
(* that row skipped, with skip_reason equal to the reason given (null when  *)
(* none was given) and skip_requested_at equal to the request's now; no     *)
(* other row is modified.                                                   *)
ReasonStored(reason) == IF reason = Undefined THEN Null ELSE reason

C3_UpdateStoresReasonAndInstant ==
    [][\A c \in CallIds :
          (calls[c].pc = "updating" /\ calls'[c].delivery # Null) =>
              LET id == calls'[c].delivery[1].id
              IN  /\ TargetOf(calls[c]) = {id}
                  /\ deliveries'[id].status = "skipped"
                  /\ deliveries'[id].skip_reason = ReasonStored(calls[c].reason)
                  /\ deliveries'[id].skip_requested_at = calls[c].now
                  /\ \A other \in DOMAIN deliveries \ {id} :
                        deliveries'[other] = deliveries[other]
      ]_vars

-----------------------------------------------------------------------------
(* C4: every successful requestMessCut inserts a notification row addressed *)
(* to the owner of the mess of the delivery's subscription, of type         *)
(* mess_cut, unread, whose payload holds the delivery id, the date, the     *)
(* meal slot and the reason of the request.                                 *)
C4_RowOf(c, row) ==
    LET id == calls[c].delivery[1].id
    IN  /\ row.user_id = Messes[Subscriptions[deliveries[id].subscription_id].mess_id].owner_id
        /\ row.type = "mess_cut"
        /\ row.is_read = FALSE
        /\ row.data # Undefined
        /\ row.data[1].deliveryId = id
        /\ row.data[1].date = calls[c].date
        /\ row.data[1].mealType = calls[c].mealType
        /\ row.data[1].reason = calls[c].reason
        /\ deliveries[id].date = calls[c].date
        /\ deliveries[id].meal_type = calls[c].mealType
        /\ deliveries[id].subscription_id = calls[c].subscriptionId

\* the claim as made: whenever the call has returned the delivery
C4_EverySuccessInsertsRow ==
    \A c \in CallIds :
        calls[c].pc = "done" =>
            \E row \in notifications : C4_RowOf(c, row)

\* as amended: whenever the call's insert succeeded; and the table holds one
\* row per insert that succeeded, none for an insert that failed
C4_InsertedRowIsForOwner ==
    /\ \A c \in CallIds :
          calls[c].insert = "ok" =>
              \E row \in notifications : C4_RowOf(c, row)
    /\ \A row \in notifications :
          \E c \in CallIds : calls[c].insert = "ok" /\ C4_RowOf(c, row)
    /\ Cardinality(notifications) = Cardinality({c \in CallIds : calls[c].insert = "ok"})

\* a request on dl2 has returned and its row is addressed to owner1
C4_Witness ==
    \E c \in CallIds :
        /\ calls[c].pc = "done"
        /\ calls[c].insert = "ok"
        /\ calls[c].delivery[1].id = "dl2"
        /\ calls[c].reason = Some("sick")
        /\ \E row \in notifications :
              /\ C4_RowOf(c, row)
              /\ row.user_id = "owner1"

-----------------------------------------------------------------------------
(* C5: an eligible request whose (subscription, date, slot) matches no      *)
(* delivery row fails with the no-row error (PGRST116) once the database    *)
(* has answered, changes no delivery row and inserts no notification, then  *)
(* or later.                                                                *)
C5_NotFound(c) ==
    /\ calls[c].pc = "failed"
    /\ calls[c].error = Some("PGRST116")

-----------------------------------------------------------------------------
(* C6: when the notification insert or the alert dispatch fails during an   *)
(* otherwise successful requestMessCut, the call still returns the updated  *)
(* delivery row, raises no error, and the row stays skipped.                *)
C6_EmissionFailureIsNotFatal ==
    \A c \in CallIds :
        ( /\ calls[c].pc \in {"done", "failed"}
          /\ calls[c].insert = "failed" \/ calls[c].push = "failed" )
        => ( /\ calls[c].pc = "done"
             /\ calls[c].error = Null
             /\ calls[c].delivery # Null
             /\ calls[c].delivery[1].id \in TargetOf(calls[c])
             /\ calls[c].delivery[1].row.status = "skipped"
             /\ deliveries[calls[c].delivery[1].id].status = "skipped" )

\* a request on dl1 has returned although both the insert and the dispatch failed
C6_Witness ==
    \E c \in CallIds :
        /\ calls[c].pc = "done"
        /\ calls[c].insert = "failed"
        /\ calls[c].push = "failed"
        /\ calls[c].delivery[1].id = "dl1"
        /\ deliveries["dl1"].status = "skipped"
        /\ notifications = {}
        /\ pushes = EmptyBag

-----------------------------------------------------------------------------
(* C7: when the join from the updated delivery to its subscription and      *)
(* mess fails, requestMessCut fails with an error that carries the          *)
(* data-access cause, inserts no notification, and the row stays skipped.   *)
DataAccessErrors == {"PGRST116", "22008", "22P02", "FetchError"}

C7_JoinUnreadable(c) ==
    /\ calls[c].delivery # Null
    /\ \/ calls[c].delivery[1].subscriptions = Null
       \/ calls[c].delivery[1].subscriptions[1].messes = Null

C7_JoinFailureIsIntegrityError ==
    \A c \in CallIds :
        C7_JoinUnreadable(c) =>
            /\ calls[c].pc = "failed"
            /\ calls[c].error # Null
            /\ calls[c].error[1] \in DataAccessErrors
            /\ calls[c].insert = "none"
            /\ deliveries[calls[c].delivery[1].id].status = "skipped"

-----------------------------------------------------------------------------
(* C8: acknowledgeMessCut with a delivery id that matches no row fails      *)
(* (DeliveryNotFound) and changes no row.                                   *)
C8_AckUnknownIdFails ==
    (ack.pc # "idle" /\ ack.deliveryId \notin DOMAIN deliveries) =>
        /\ ack.pc = "failed"
        /\ \A id \in DOMAIN deliveries : deliveries[id].delivery_notes = Null

-----------------------------------------------------------------------------
(* C9: two interleaved requests for the same (subscription, date, slot) are *)
(* not excluded: both pass the guard and both succeed, and the row is       *)
(* skipped with the skip_reason and skip_requested_at of the update applied *)
(* last.  Stated of the update that lands on a row another call has         *)
(* already updated.                                                         *)
C9_LastWriteWins ==
    [][\A c, b \in CallIds :
          ( /\ b # c
            /\ calls[b].delivery # Null
            /\ calls[c].pc = "updating"
            /\ calls'[c].delivery # Null
            /\ calls'[c].delivery[1].id = calls[b].delivery[1].id )
          => LET id == calls'[c].delivery[1].id
             IN  /\ deliveries'[id].status = "skipped"
                 /\ deliveries'[id].skip_reason = ReasonStored(calls[c].reason)
                 /\ deliveries'[id].skip_requested_at = calls[c].now
      ]_vars

-----------------------------------------------------------------------------
(* C10: a delivery row is skipped only if a requestMessCut for its          *)
(* (subscription, date, slot) passed the 12-hour check; a row's status      *)
(* changes only in the update step of such a call, never in acknowledge or  *)
(* in the notification steps.                                               *)
C10_PassedCheck(frame, row) ==
    /\ frame.subscriptionId = row.subscription_id
    /\ frame.date = row.date
    /\ frame.mealType = row.meal_type
    /\ frame.now # Null
    /\ LeadTime(row.date, row.meal_type, frame.now[1]) >= TwelveHoursMs

C10_SkippedOnlyByEligibleRequest ==
    /\ [](\A id \in DOMAIN deliveries :
            deliveries[id].status = "skipped" =>
                \E c \in CallIds :
                    /\ calls[c].pc \notin {"idle", "updating"}
                    /\ C10_PassedCheck(calls[c], deliveries[id]))
    /\ [][\A id \in DOMAIN deliveries :
            deliveries'[id].status # deliveries[id].status =>
                /\ deliveries'[id].status = "skipped"
                /\ ack' = ack
                /\ notifications' = notifications
                /\ pushes' = pushes
                /\ \E c \in CallIds :
                      /\ calls[c].pc = "updating"
                      /\ calls'[c].pc # "updating"
                      /\ C10_PassedCheck(calls[c], deliveries[id])
       ]_vars

\* dl1 was skipped by a request made exactly 12 hours ahead, and acknowledged
C10_Witness ==
    /\ deliveries["dl1"].status = "skipped"
    /\ deliveries["dl1"].skip_requested_at = Some(At(D1, 1, 0, 0, 0))
    /\ deliveries["dl1"].delivery_notes # Null
    /\ deliveries["dl2"].status = "scheduled"

-----------------------------------------------------------------------------
(* C11: after any interleaving of requestMessCut and acknowledgeMessCut     *)
(* calls there is at most one delivery row per (subscription, date, meal    *)
(* slot): no step inserts or deletes a delivery row, and no step changes a  *)
(* row's subscription, date or meal slot.                                   *)
C11_Triple(row) == <<row.subscription_id, row.date, row.meal_type>>

C11_OneRowPerTriple ==
    /\ [](\A a, b \in DOMAIN deliveries :
            C11_Triple(deliveries[a]) = C11_Triple(deliveries[b]) => a = b)
    /\ [][ /\ DOMAIN deliveries' = DOMAIN deliveries
           /\ \A id \in DOMAIN deliveries :
                 C11_Triple(deliveries'[id]) = C11_Triple(deliveries[id])
       ]_vars

\* two requests on dl1 have both returned and dl1 was acknowledged: the table
\* still holds its three rows
C11_Witness ==
    /\ \E c, b \in CallIds :
          /\ c # b
          /\ calls[c].pc = "done" /\ calls[c].delivery[1].id = "dl1"
          /\ calls[b].pc = "done" /\ calls[b].delivery[1].id = "dl1"
    /\ ack.pc = "done"
    /\ ack.deliveryId = "dl1"
    /\ deliveries["dl1"].delivery_notes # Null
    /\ DOMAIN deliveries = DeliveryIds

-----------------------------------------------------------------------------
(* C12: within one requestMessCut the steps happen in the order guard,      *)
(* delivery update (with its read-join), notification insert, alert         *)
(* dispatch: the insert is never attempted before the update has            *)
(* succeeded, the alert is never dispatched before the insert has been      *)
(* attempted.                                                               *)
C12_StepOrder ==
    { <<"idle", "updating">>, <<"idle", "failed">>,
      <<"updating", "inserting">>, <<"updating", "failed">>,
      <<"inserting", "pushing">>, <<"pushing", "done">> }

C12_UpdateSucceeded(frame) ==
    /\ frame.attempts.update = 1
    /\ frame.error = Null
    /\ frame.delivery # Null
    /\ frame.delivery[1].row.status = "skipped"

C12_StepsInOrder ==
    /\ [](\A c \in CallIds :
            /\ calls[c].attempts.update > 0 =>
                  ~GuardRefuses(calls[c].date, calls[c].mealType, calls[c].now[1])
            /\ calls[c].attempts.insert > 0 => C12_UpdateSucceeded(calls[c])
            /\ calls[c].attempts.push > 0 => calls[c].attempts.insert > 0)
    /\ [][ /\ \A c \in CallIds :
                 /\ calls'[c].pc # calls[c].pc =>
                       <<calls[c].pc, calls'[c].pc>> \in C12_StepOrder
                 /\ calls'[c].attempts.update # calls[c].attempts.update =>
                       calls[c].pc = "updating"
                 /\ calls'[c].attempts.insert # calls[c].attempts.insert =>
                       calls[c].pc = "inserting" /\ C12_UpdateSucceeded(calls[c])
                 /\ calls'[c].attempts.push # calls[c].attempts.push =>
                       calls[c].pc = "pushing" /\ calls[c].attempts.insert = 1
           /\ notifications' # notifications =>
                 \E c \in CallIds :
                     calls[c].pc = "inserting" /\ C12_UpdateSucceeded(calls[c])
           /\ pushes' # pushes =>
                 \E c \in CallIds :
                     calls[c].pc = "pushing" /\ calls[c].insert # "none"
       ]_vars

\* a request on dl2 has gone through its four steps, each once
C12_Witness ==
    \E c \in CallIds :
        /\ calls[c].pc = "done"
        /\ calls[c].delivery[1].id = "dl2"
        /\ calls[c].attempts = [update |-> 1, insert |-> 1, push |-> 1]
        /\ calls[c].insert = "ok"
        /\ calls[c].push = "ok"
        /\ notifications # {}
        /\ pushes # EmptyBag

-----------------------------------------------------------------------------
(* C13: sendNotification never raises to its caller: whichever of its two   *)
(* side effects fails (the row insert or the alert dispatch), the failure   *)
(* is caught and logged and the call completes normally.  Stated of the     *)
(* sendNotification that requestMessCut awaits: once it has returned, the   *)
(* request has no error and a failed side effect has left its log line.     *)
C13_SendLogLine == "Error sending notification:"

C13_EveryFailureIsLogged ==
    \A c \in CallIds :
        calls[c].attempts.push > 0 /\ calls[c].pc # "pushing" =>
            /\ calls[c].pc = "done"
            /\ calls[c].error = Null
            /\ (calls[c].insert = "failed" \/ calls[c].push = "failed") =>
                  calls[c].logged = <<C13_SendLogLine>>

-----------------------------------------------------------------------------
(* C14: for the same date, meal slot and instant the guard of               *)
(* requestMessCut accepts exactly when canRequestMessCut returns true; a    *)
(* request made after the lead time has fallen below 12 hours is refused    *)
(* even if an earlier canRequestMessCut for the same meal returned true.    *)
C14_GuardAgreesWithCheck ==
    [][\A c \in CallIds :
          (calls[c].pc = "idle" /\ calls'[c].pc # "idle") =>
              /\ calls'[c].pc = "updating" <=>
                    canRequestMessCut(calls'[c].date, calls'[c].mealType, now)
              /\ calls'[c].pc # "updating" =>
                    /\ calls'[c].pc = "failed"
                    /\ calls'[c].error = Some(IneligibleMessage)
              /\ ( /\ check.pc = "done"
                   /\ check.result
                   /\ check.date = calls'[c].date
                   /\ check.mealType = calls'[c].mealType
                   /\ ~canRequestMessCut(check.date, check.mealType, now) )
                 => calls'[c].pc = "failed"
      ]_vars

-----------------------------------------------------------------------------
(* C15: the meal slot maps to a fixed cutoff time of day: breakfast 08:00,  *)
(* lunch 13:00, dinner 20:00, every other slot value 12:00; both            *)
(* canRequestMessCut and requestMessCut use this mapping, and decide by     *)
(* the lead time to the date at that cutoff.                                *)
C15_Cutoff(slot) ==
    IF slot = "breakfast" THEN <<8, 0>>
    ELSE IF slot = "lunch" THEN <<13, 0>>
    ELSE IF slot = "dinner" THEN <<20, 0>>
    ELSE <<12, 0>>

C15_Lead(date, slot, t) ==
    DayNumber(date) * MsPerDay
        + C15_Cutoff(slot)[1] * MsPerHour + C15_Cutoff(slot)[2] * MsPerMinute - t

C15_SameCutoffInCheckAndRequest ==
    /\ check.pc = "done" =>
          /\ check.mealTime = C15_Cutoff(check.mealType)
          /\ IsValidDate(check.date) =>
                (check.result <=>
                    C15_Lead(check.date, check.mealType, check.now[1]) >= TwelveHoursMs)
    /\ \A c \in CallIds :
          calls[c].pc # "idle" =>
              /\ calls[c].mealTime = C15_Cutoff(calls[c].mealType)
              /\ IsValidDate(calls[c].date) =>
                    (calls[c].error = Some(IneligibleMessage) <=>
                        C15_Lead(calls[c].date, calls[c].mealType, calls[c].now[1])
                            < TwelveHoursMs)

\* the check has run for a slot that is no meal and a request for a breakfast
C15_Witness ==
    /\ check.pc = "done"
    /\ check.mealType = "snack"
    /\ check.mealTime = <<12, 0>>
    /\ calls[FirstCall].pc # "idle"
    /\ calls[FirstCall].mealType = "breakfast"
    /\ calls[FirstCall].mealTime = <<8, 0>>

-----------------------------------------------------------------------------
(* C16: acknowledgeMessCut on an existing delivery id sets that row's note  *)
(* to 'Acknowledged by mess owner' whatever the row's date, slot or lead    *)
(* time, leaves its status, skip_reason and skip_requested_at as they       *)
(* were, modifies no other delivery row and inserts no notification; a      *)
(* call the store could not be reached for changes nothing.                 *)
C16_Note == Some("Acknowledged by mess owner")

C16_AckSetsOnlyTheNote ==
    [][(ack.pc = "idle" /\ ack'.pc # "idle" /\ ack'.deliveryId \in DOMAIN deliveries) =>
          LET id == ack'.deliveryId
          IN  /\ notifications' = notifications
              /\ pushes' = pushes
              /\ DOMAIN deliveries' = DOMAIN deliveries
              /\ \A other \in DOMAIN deliveries \ {id} :
                    deliveries'[other] = deliveries[other]
              /\ ack'.pc \in {"done", "failed"}
              /\ ack'.pc = "done" =>
                    /\ ack'.error = Null
                    /\ deliveries'[id] = [deliveries[id] EXCEPT !.delivery_notes = C16_Note]
              /\ ack'.pc = "failed" =>
                    /\ ack'.error = Some("FetchError")
                    /\ deliveries'[id] = deliveries[id]
      ]_vars

\* dl1, skipped earlier, was acknowledged one hour after its lunch
C16_Witness ==
    /\ now = At(D1, 14, 0, 0, 0)
    /\ ack.pc = "done"
    /\ ack.deliveryId = "dl1"
    /\ deliveries["dl1"].delivery_notes = C16_Note
    /\ deliveries["dl1"].status = "skipped"
    /\ deliveries["dl1"].skip_reason = Some("sick")
    /\ deliveries["dl1"].skip_requested_at = Some(At(D1, 0, 0, 0, 0))
    /\ deliveries["dl3"].delivery_notes = Null
    /\ notifications = {}

-----------------------------------------------------------------------------
(* C17: every notification row inserted by sendNotification has is_read     *)
(* false and a type equal to the type of the payload when the payload       *)
(* carries one, and system when the payload is absent or has no type (a     *)
(* type that is the empty string counts as none); the type of a row never   *)
(* changes afterwards.                                                      *)
C17_CarriesType(data) ==
    /\ data # Undefined
    /\ "type" \in DOMAIN data[1]
    /\ data[1].type # ""

C17_TypeFor(data) == IF C17_CarriesType(data) THEN data[1].type ELSE "system"

C17_Ids(rows) == {r.id : r \in rows}

C17_InsertedRowIsUnreadAndTyped ==
    /\ [](\A r \in notifications : r.type = C17_TypeFor(r.data))
    /\ [][\A r \in notifications' :
            r.id \notin C17_Ids(notifications) =>
                /\ ns'.op = "sendNotification"
                /\ ns'.insert = "ok"
                /\ r.is_read = FALSE
                /\ r.user_id = ns'.userId
                /\ r.data = ns'.data
                /\ r.type = C17_TypeFor(ns'.data)
       ]_vars

\* the table holds a row of type system, inserted without a payload, and a
\* row of type delivery, inserted with a payload of that type
C17_Witness ==
    /\ \E r \in notifications : r.data = Undefined /\ r.type = "system"
    /\ \E r \in notifications :
          /\ C17_CarriesType(r.data)
          /\ r.type = "delivery"
          /\ r.is_read = FALSE

-----------------------------------------------------------------------------
(* C18: there is no retry: every requestMessCut terminates, with the        *)
(* updated delivery or with an error, after at most one delivery update     *)
(* attempt, at most one notification insert attempt and at most one alert   *)
(* dispatch attempt, whatever fails; a call that has terminated takes no    *)
(* further step.                                                            *)
C18_Terminated(c) == calls[c].pc \in {"done", "failed"}

C18_TerminatesWithoutRetry ==
    /\ [](\A c \in CallIds :
            /\ calls[c].attempts.update <= 1
            /\ calls[c].attempts.insert <= 1
            /\ calls[c].attempts.push <= 1
            /\ calls[c].pc = "done" => calls[c].delivery # Null /\ calls[c].error = Null
            /\ calls[c].pc = "failed" => calls[c].error # Null)
    /\ [][\A c \in CallIds : C18_Terminated(c) => calls'[c] = calls[c]]_vars
    /\ \A c \in CallIds : (calls[c].pc # "idle") ~> C18_Terminated(c)

\* a request has returned the delivery after one attempt of each step, of
\* which the insert and the dispatch failed
C18_Witness ==
    /\ calls[FirstCall].pc = "done"
    /\ calls[FirstCall].attempts = [update |-> 1, insert |-> 1, push |-> 1]
    /\ calls[FirstCall].insert = "failed"
    /\ calls[FirstCall].push = "failed"
    /\ calls[FirstCall].delivery # Null
    /\ calls[FirstCall].logged = <<"Error sending notification:">>

-----------------------------------------------------------------------------
(* C19: getUnreadCount(user) returns the number of notification rows whose  *)
(* recipient is that user and whose is_read is false, and 0 when there are  *)
(* none or the query fails; what it returns is unaffected by rows of other  *)
(* users, grows by one with a successful sendNotification to that user and  *)
(* shrinks by one with markAsRead on one of that user's unread rows.        *)
C19_UnreadOf(rows, user) == {r \in rows : r.user_id = user /\ ~r.is_read}

\* what getUnreadCount(user) returns on a table, its query answered
C19_Returned(rows, user) == OrZero(Some(UnreadCountQuery(rows, user)))

C19_InsertedFor(user) ==
    /\ ns'.op = "sendNotification"
    /\ ns'.insert = "ok"
    /\ ns'.userId = user

C19_MarkedUnreadOf(user) ==
    /\ ns'.op = "markAsRead"
    /\ ns'.update = "ok"
    /\ \E r \in C19_UnreadOf(notifications, user) : Some(r.id) = ns'.notificationId

C19_UnreadCountIsPerUser ==
    /\ [](ns.op = "getUnreadCount" =>
            /\ ns.pc = "done"
            /\ ns.error = Null
            /\ ns.query = "ok" =>
                  ns.result = Some(Cardinality(C19_UnreadOf(notifications, ns.userId)))
            /\ ns.query = "failed" => ns.result = Some(0))
    /\ [][vars' # vars =>
            \A user \in Users :
                C19_Returned(notifications', user) - C19_Returned(notifications, user) =
                    IF C19_InsertedFor(user) THEN 1
                    ELSE IF C19_MarkedUnreadOf(user) THEN 0 - 1
                    ELSE 0
       ]_vars

\* owner1 has one unread row and owner2 another: the count of owner1 is 1
C19_Witness ==
    /\ ns.op = "getUnreadCount"
    /\ ns.query = "ok"
    /\ ns.userId = "owner1"
    /\ ns.result = Some(1)
    /\ C19_UnreadOf(notifications, "owner2") # {}
    /\ Cardinality(notifications) = 2

-----------------------------------------------------------------------------
(* C20: markAsRead(notificationId) sets is_read to true on the row with     *)
(* that id only, leaves every other row and every other field as they       *)
(* were, changes nothing when called a second time, and never raises, also  *)
(* when the id matches no row or the store fails (nothing changes then).    *)
C20_WithId(rows, id) == {r \in rows : r.id = id}

C20_MarkAsReadSetsOneFlag ==
    [][(ns'.op = "markAsRead" /\ vars' # vars) =>
          LET id == ns'.notificationId[1]
          IN  /\ ns'.pc = "done"
              /\ ns'.error = Null
              /\ pushes' = pushes
              /\ deliveries' = deliveries
              /\ notifications' \ C20_WithId(notifications', id) =
                    notifications \ C20_WithId(notifications, id)
              /\ ns'.update = "ok" =>
                    /\ C20_WithId(notifications', id) =
                          { [r EXCEPT !.is_read = TRUE] : r \in C20_WithId(notifications, id) }
                    /\ MarkRead(notifications', id) = notifications'
              /\ ns'.update # "ok" => notifications' = notifications
              /\ (\A r \in C20_WithId(notifications, id) : r.is_read) =>
                    notifications' = notifications
      ]_vars

\* the first row was marked as read, the second is still unread
C20_Witness ==
    /\ ns.op = "markAsRead"
    /\ ns.update = "ok"
    /\ ns.notificationId = Some(NotificationId(1))
    /\ \E r \in notifications : r.id = NotificationId(1) /\ r.is_read
    /\ \E r \in notifications : r.id = NotificationId(2) /\ ~r.is_read

-----------------------------------------------------------------------------
(* C21: role gating is a static mapping from role to an allowed set:        *)
(* isValidScreen(screen) and hasPermission(feature) return false when no    *)
(* user is signed in, otherwise true exactly when the screen or feature is  *)
(* in the allowed set of the user's role, a role that is not customer,      *)
(* mess_owner or admin being treated as customer.                           *)
C21_Role(user) ==
    IF user[1].role \in {"mess_owner", "admin"} THEN user[1].role ELSE "customer"

C21_Screens(role) ==
    CASE role = "customer" -> {"home", "discover", "subscriptions", "notifications", "profile"}
      [] role = "mess_owner" -> {"dashboard", "menu", "subscribers", "notifications", "profile"}
      [] role = "admin" -> {"overview", "messes", "notifications", "settings"}

C21_Features(role) ==
    CASE role = "customer" ->
            {"browse_messes", "manage_subscriptions", "view_notifications", "edit_profile"}
      [] role = "mess_owner" ->
            {"manage_mess", "manage_menu", "view_subscribers", "view_notifications",
             "edit_profile"}
      [] role = "admin" ->
            {"system_management", "approve_messes", "view_all_data", "manage_settings",
             "view_notifications"}

C21_GatingIsTheRoleTable ==
    /\ perm.op = "isValidScreen" =>
          (perm.result <=>
              (perm.user # Null /\ perm.arg \in C21_Screens(C21_Role(perm.user))))
    /\ perm.op = "hasPermission" =>
          (perm.result <=>
              (perm.user # Null /\ perm.arg \in C21_Features(C21_Role(perm.user))))

\* a user whose role the table does not have was asked for a customer screen
C21_Witness ==
    /\ perm.op = "isValidScreen"
    /\ perm.user = Some([role |-> "superuser"])
    /\ perm.arg = "discover"
    /\ perm.result = TRUE

-----------------------------------------------------------------------------
\* the theme the provider shows, as the string toggleTheme would store
C22_InMemory == Some(ThemeName(theme.isDark))

\* no toggleTheme call is in flight and one has completed since the mount
C22_ToggleCompleted == theme.toggled /\ theme.writes = <<>>

\* loadTheme has finished on a mount after which nothing was toggled
C22_Restored ==
    /\ theme.load.pc = "done"
    /\ ~theme.toggled
    /\ theme.writes = <<>>
    /\ theme.isDark = theme.rendered
    /\ "Error loading theme:" \notin theme.logged

(* C22: the theme preference is persistent: once a toggleTheme call has     *)
(* completed the value stored under the key theme is the in-memory isDark,  *)
(* and a loadTheme of a later start shows the stored theme, light when      *)
(* nothing is stored.                                                       *)
C22_ThemeIsPersistent ==
    /\ C22_ToggleCompleted => theme.stored = C22_InMemory
    /\ C22_Restored =>
          theme.isDark = (theme.stored = Some("dark"))

\* the part of C22 that is about loadTheme alone
C22_LoadRestoresStored ==
    C22_Restored => theme.isDark = (theme.stored = Some("dark"))
-----------------------------------------------------------------------------
\* this step is a run of the effect that called router.replace
C23_Redirects == nav' # nav /\ nav'.replaced # Null

\* the screens the table allows the role of the hook's user
C23_Allowed == PermissionsOf(nav.user[1].role).screens

(* C23: the navigation hook redirects only when a user and a session are    *)
(* present and the path is a tab path whose screen is not among the         *)
(* allowed screens of the user's role; it redirects to the default screen   *)
(* of that role; and the default screen of every role is one of the         *)
(* role's allowed screens.                                                  *)
C23_RedirectsOnlyFromForeignTab ==
    /\ [](\A r \in DOMAIN ROLE_PERMISSIONS :
            ROLE_PERMISSIONS[r].defaultScreen \in ROLE_PERMISSIONS[r].screens)
    /\ [][C23_Redirects =>
            /\ nav.user # Null
            /\ nav.session
            /\ Len(nav.pathname) = 2
            /\ nav.pathname[1] = "(tabs)"
            /\ nav.pathname[2] \notin C23_Allowed
            /\ nav'.replaced = Some(PermissionsOf(nav.user[1].role).defaultScreen)
            /\ nav'.pathname = TabPath(nav'.replaced[1])
            /\ nav'.replaced[1] \in C23_Allowed]_vars

\* a mess owner was sent from an admin tab to the dashboard
C23_Witness ==
    /\ nav.user = Some([role |-> "mess_owner"])
    /\ nav.session
    /\ nav.replaced = Some("dashboard")
    /\ nav.pathname = TabPath("dashboard")
-----------------------------------------------------------------------------
\* this step is a run of the effect
C29_EffectRuns == nav' # nav /\ (~nav'.pending \/ nav'.replaced # Null)

\* this step is a run of the effect that called router.replace
C29_Redirects == C29_EffectRuns /\ nav'.replaced # Null

\* the role of the hook's user is not the one the hook last saw
C29_RoleChanged == nav.user # Null /\ nav.lastUserRole # Some(nav.user[1].role)

(* C29: the navigation hook latches after a redirect: a run of the effect   *)
(* that redirects sets the latch; while the latch is set no run of the      *)
(* effect redirects, whichever path the user is on, unless the role of the  *)
(* user differs from the role last seen; the latch is cleared only by a     *)
(* run of the effect that sees such a changed role, and every such run      *)
(* records the new role and clears the latch before it looks at the path.   *)
C29_LatchHoldsUntilRoleChanges ==
    /\ [][C29_Redirects => nav'.hasRedirected]_vars
    /\ [][(C29_Redirects /\ nav.hasRedirected) => C29_RoleChanged]_vars
    /\ [][(nav.hasRedirected /\ ~nav'.hasRedirected)
            => (C29_EffectRuns /\ C29_RoleChanged)]_vars
    /\ [][(C29_EffectRuns /\ C29_RoleChanged) =>
            /\ nav'.lastUserRole = Some(nav.user[1].role)
            /\ nav'.hasRedirected => C29_Redirects]_vars

\* the latch is set, the effect has run on a tab the role is not allowed,
\* and it has not redirected
C29_Witness ==
    /\ nav.hasRedirected
    /\ ~nav.pending
    /\ nav.replaced = Null
    /\ nav.user # Null
    /\ nav.session
    /\ nav.lastUserRole = Some(nav.user[1].role)
    /\ includesTabs(nav.pathname)
    /\ currentScreen(nav.pathname) # ""
    /\ currentScreen(nav.pathname) \notin PermissionsOf(nav.user[1].role).screens
-----------------------------------------------------------------------------
\* in this step call f of fetchUserProfile ends after the no-row answer
C24_EndsAfterNoRow(f) ==
    /\ auth.fetches[f].pc \in {"getSession", "insert"}
    /\ auth'.fetches[f].pc = "idle"

(* C24: a fetchUserProfile whose lookup was answered with the no-row error  *)
(* PGRST116 ends with the default profile of role customer for that user    *)
(* id as the current user, whether or not the insert succeeded.             *)
C24_NoRowCreatesDefaultUser ==
    [][\A f \in FetchIds :
          C24_EndsAfterNoRow(f) =>
              auth'.user = Some(DefaultUser(auth.fetches[f].userId))]_vars
-----------------------------------------------------------------------------
(* C27: in the auth context the current user is non-null only while the     *)
(* session is non-null, under every interleaving of the session lookup of   *)
(* the mount, the listener, the calls of fetchUserProfile in flight, signIn *)
(* and signOut; a fetch in flight when signOut completes restores no user.  *)
C27_UserOnlyWithSession == auth.user # Null => auth.session # Null

-----------------------------------------------------------------------------
\* no call of fetchUserProfile is suspended
C28_NoFetchInFlight == \A f \in FetchIds : auth.fetches[f].pc = "idle"

(* C28: after the auth provider mounts loading becomes false and stays      *)
(* false, whether there is no session, the profile fetch succeeds, returns  *)
(* an error or throws; once the session lookup of the mount and every       *)
(* profile fetch have completed, loading is false.                          *)
C28_LoadingEnds ==
    /\ <>[](~auth.loading)
    /\ []((auth.boot = "done" /\ C28_NoFetchInFlight) => ~auth.loading)
    /\ [][~auth.loading => ~auth'.loading]_vars

\* loading is over after a profile fetch that threw
C28_Witness ==
    /\ ~auth.loading
    /\ auth.boot = "done"
    /\ C28_NoFetchInFlight
    /\ auth.session # Null
    /\ auth.user = Null
    /\ auth.console = "Error fetching user profile: (thrown)"
-----------------------------------------------------------------------------
\* in this step the update of call c is answered and row id is changed
C25_UpdateLands(c, id) ==
    /\ calls[c].pc = "updating"
    /\ calls'[c].pc # "updating"
    /\ deliveries'[id] # deliveries[id]

(* C25: every delivery row that requestMessCut puts into status skipped     *)
(* holds as skip_requested_at the instant the call used for its 12-hour     *)
(* check, so for every skipped row the scheduled instant of its date and    *)
(* slot is at least 12 hours after its skip_requested_at.                   *)
C25_StampIsTheCheckedInstant ==
    /\ [](\A id \in DeliveryIds :
            deliveries[id].status = "skipped" =>
                /\ deliveries[id].skip_requested_at # Null
                /\ LeadTime(deliveries[id].date, deliveries[id].meal_type,
                            deliveries[id].skip_requested_at[1]) >= TwelveHoursMs)
    /\ [][\A c \in CallIds, id \in DeliveryIds :
            C25_UpdateLands(c, id) =>
                /\ deliveries'[id].status = "skipped"
                /\ deliveries'[id].skip_requested_at = calls[c].now]_vars

\* a row was skipped by an update that landed after the clock had moved on
\* from the instant of the check, to less than 12 hours before the meal
C25_Witness ==
    \E id \in DeliveryIds :
        /\ deliveries[id].status = "skipped"
        /\ deliveries[id].skip_requested_at # Null
        /\ deliveries[id].skip_requested_at[1] < now
        /\ LeadTime(deliveries[id].date, deliveries[id].meal_type, now) < TwelveHoursMs
-----------------------------------------------------------------------------
\* in this step the database answers the update of the first call, which
\* names row dl2, whose status is st
C26_UpdateAnswered(st) ==
    /\ calls[FirstCall].pc = "updating"
    /\ TargetOf(calls[FirstCall]) = {"dl2"}
    /\ deliveries["dl2"].status = st
    /\ calls'[FirstCall].pc \in {"inserting", "failed"}
    /\ calls'[FirstCall].error # Some("FetchError")

(* C26: the update of requestMessCut has no guard on the current status of  *)
(* the row: an eligible request on a matching row that is delivered,        *)
(* cancelled or already skipped succeeds, leaves the row skipped with the   *)
(* reason of the request (null when none was given) and the instant of the  *)
(* request, and a notification row for it is inserted.                      *)
C26_AnyStatusIsOverwritten ==
    /\ [][\A st \in {"delivered", "cancelled", "skipped"} :
            C26_UpdateAnswered(st)
            => /\ calls'[FirstCall].pc = "inserting"
               /\ deliveries'["dl2"].status = "skipped"
               /\ deliveries'["dl2"].skip_reason = ReasonStored(calls[FirstCall].reason)
               /\ deliveries'["dl2"].skip_requested_at = calls[FirstCall].now]_vars
    /\ []((calls[FirstCall].pc = "done" /\ calls[FirstCall].delivery[1].id = "dl2")
            => \E row \in notifications : C4_RowOf(FirstCall, row))

\* what holds of C26: the status is overwritten whatever it was, the reason
\* is the one given and otherwise the one the row had, and the notification
\* row is there when its insert succeeded
C26_StatusIsOverwritten ==
    /\ [][\A st \in {"delivered", "cancelled", "skipped"} :
            C26_UpdateAnswered(st)
            => /\ calls'[FirstCall].pc = "inserting"
               /\ deliveries'["dl2"].status = "skipped"
               /\ deliveries'["dl2"].skip_reason =
                     IF calls[FirstCall].reason = Undefined
                     THEN deliveries["dl2"].skip_reason
                     ELSE calls[FirstCall].reason
               /\ deliveries'["dl2"].skip_requested_at = calls[FirstCall].now]_vars
    /\ []((calls[FirstCall].pc = "done" /\ calls[FirstCall].delivery[1].id = "dl2")
            => /\ calls[FirstCall].attempts.insert = 1
               /\ calls[FirstCall].insert = "ok"
                    => \E row \in notifications : C4_RowOf(FirstCall, row))

\* a delivered row was skipped by a request that returned
C26_OverwrittenReached ==
    /\ calls[FirstCall].pc = "done"
    /\ calls[FirstCall].delivery[1].id = "dl2"
    /\ deliveries["dl2"].status = "skipped"
    /\ deliveries["dl2"].skip_reason = Some("away")
    /\ calls[FirstCall].reason = Undefined
-----------------------------------------------------------------------------
\* the changes of status the admin screens offer
C30_OfferedEdges ==
    { <<"pending", "approved">>, <<"pending", "rejected">>,
      <<"approved", "suspended">>,
      <<"rejected", "approved">>, <<"suspended", "approved">> }

(* C30: a mess is created with status pending, and its status changes only  *)
(* along the edges the admin screens offer (pending to approved or          *)
(* rejected, approved to suspended, rejected or suspended to approved),     *)
(* never back to pending, also when two administrators act on the same      *)
(* mess from screens that show a status the mess no longer has.             *)
C30_StatusFollowsOfferedEdges ==
    [][admin'.status # admin.status =>
          IF admin.status = Null
          THEN admin'.status = Some("pending")
          ELSE /\ admin'.status # Null
               /\ <<admin.status[1], admin'.status[1]>> \in C30_OfferedEdges]_vars

\* what holds of C30: a mess starts pending and never becomes pending again
C30_NeverBackToPending ==
    [][admin'.status # admin.status =>
          (admin'.status = Some("pending")) = (admin.status = Null)]_vars
====
